---- MODULE Spec2Model ----
(***************************************************************************)
(* Model of app.py, a Streamlit portfolio page: the demo data generator    *)
(* make_demo_df, the memoised load_data, and the page renders with their   *)
(* pandas aggregations.                                                    *)
(*                                                                         *)
(* Representation.                                                         *)
(*  - A DataFrame is [columns : Seq(STRING), rows : Seq(row)], a row being *)
(*    a function from column name to value; the row at position i of the   *)
(*    sequence carries the RangeIndex label i-1.                           *)
(*  - A date is the number of days after 2024-01-01.                       *)
(*  - A float is kept exactly as a rational [num, den]; freq, which the    *)
(*    code rounds to 2 decimals, is kept as an integer count of hundredths.*)
(*  - numpy's PCG64 generator is 128 bits wide; it is abstracted by a      *)
(*    16-bit Lehmer generator with the same interface: a state seeded from *)
(*    `seed`, advanced by one step per draw, each draw reduced to the      *)
(*    requested half-open range.                                           *)
(***************************************************************************)
EXTENDS Integers, Sequences, FiniteSets, TLC

VARIABLES
    page,      \* the "Navigate" radio's selection (line 93)
    pc,        \* position of the script run
    cache,     \* st.cache_data's entries for load_data: argument tuple -> stored table
    genRuns,   \* number of executions of make_demo_df through load_data
    renders,   \* number of script runs started in this process
    heap,      \* the DataFrame objects alive in the current script run
    df,        \* local df of the render function: a reference into heap, or NullRef
    wk,        \* local wk of render_projects: a reference into heap, or NullRef
    daily,     \* local daily of render_home
    agg,       \* local agg of render_projects
    hourly,    \* local hourly of render_projects
    gn,        \* argument n of a direct call make_demo_df(n, seed)
    gseed,     \* argument seed of that call
    gpc,       \* position of the direct caller
    gcalls     \* the results of the direct calls made so far, in order

vars == <<page, pc, cache, genRuns, renders, heap, df, wk, daily, agg, hourly,
          gn, gseed, gpc, gcalls>>

appVars == <<page, pc, cache, genRuns, renders, heap, df, wk, daily, agg, hourly>>
genVars == <<gn, gseed, gpc, gcalls>>

\* a local that names no object, and a local that holds no table
NullRef == 0
NoFrame == [columns |-> <<>>, rows |-> <<>>]

\* the cache is a mapping from argument tuples to stored tables; load_data
\* takes no argument, so its only key is the empty tuple
CacheKey == <<>>
NoEntries == [k \in {} |-> NoFrame]

\* ---------------------------------------------------------------- bounds
MaxN == 9          \* largest n of a direct call
MaxSeed == 5       \* largest seed of a direct call
MaxCalls == 2      \* direct calls per behaviour
MaxRenders == 6    \* script runs per behaviour

\* ------------------------------------------------------ program constants
DefaultN == 200
DefaultSeed == 7
ImpressionsLow == 1000
ImpressionsHigh == 50000
UniquesLow == 500
UniquesHigh == 20000
HoursPerDay == 24
RollingWindow == 4
FreqDecimalsScale == 100

Regions == <<"Lisboa", "Porto", "Matosinhos", "Setúbal">>
Formats == <<"Mupi", "Abrigo", "Digital">>
BaseColumns == <<"date", "region", "impressions", "uniques", "format">>
DemoColumns == BaseColumns \o <<"freq">>

\* ------------------------------------------------------------- arithmetic
Abs(x) == IF x < 0 THEN -x ELSE x

\* floor(num / den) for den > 0
FloorDiv(num, den) == num \div den

\* truncation of num/den (den > 0): what rounding is not
RoundHalfEven_floor(num, den) == FloorDiv(num, den)

\* numpy's rounding of num/den (den > 0) to an integer: nearest, ties to even
RoundHalfEven(num, den) ==
    LET q == FloorDiv(num, den)
        r == num - q * den
    IN  IF 2 * r < den THEN q
        ELSE IF 2 * r > den THEN q + 1
        ELSE IF q % 2 = 0 THEN q ELSE q + 1

\* ------------------------------------------------- pseudo-random generator
RngModulus == 65521
RngMultiplier == 17364

\* a generator shared by all calls: its state moves on with every call made
default_rng_unseeded(seed) == ((seed + Len(gcalls)) % (RngModulus - 1)) + 1

\* np.random.default_rng(seed): the generator state derived from the seed alone
default_rng(seed) == (seed % (RngModulus - 1)) + 1

\* a * b modulo RngModulus, for 0 <= a, b < RngModulus, without leaving 32 bits
MulShift == 256
MulMod(a, b) ==
    ((((a * (b \div MulShift)) % RngModulus) * MulShift) + a * (b % MulShift))
        % RngModulus

\* one step of the generator
RngNext(s) == MulMod(s, RngMultiplier)

\* RngMultiplier to the power k, modulo RngModulus
RECURSIVE MultiplierPower(_)
MultiplierPower(k) ==
    IF k = 0 THEN 1
    ELSE LET h == MultiplierPower(k \div 2)
             sq == MulMod(h, h)
         IN  IF k % 2 = 0 THEN sq ELSE MulMod(sq, RngMultiplier)

\* the state k steps after s: RngNext applied k times
RngAfter(s, k) == IF k <= 0 THEN s ELSE MulMod(s, MultiplierPower(k))

\* the k states after s, in order: the raw material of k successive draws
RngStates(s, k) == [i \in 1..k |-> RngAfter(s, i)]

\* a raw draw reduced to the half-open range [low, high)
Bounded(raw, low, high) == low + ((raw - 1) % (high - low))

\* every integer column drawn from the range of impressions
integers_same_range(s, low, high, n) ==
    LET st == RngStates(s, n)
    IN  [i \in 1..Len(st) |-> Bounded(st[i], ImpressionsLow, ImpressionsHigh)]

\* rng.integers(low, high, n) from state s: n integers in [low, high)
integers(s, low, high, n) ==
    LET st == RngStates(s, n)
    IN  [i \in 1..Len(st) |-> Bounded(st[i], low, high)]

\* rng.choice(seq, n) from state s: n elements of seq, uniformly
choice(s, seq, n) ==
    LET st == RngStates(s, n)
    IN  [i \in 1..Len(st) |-> seq[Bounded(st[i], 0, Len(seq)) + 1]]

\* pd.date_range with freq="W": one date per week
date_range_weekly(n) == [i \in 1..n |-> 7 * (i - 1)]

\* pd.date_range("2024-01-01", periods=n, freq="D") as day offsets
date_range(n) == [i \in 1..n |-> i - 1]

\* a size check that also rejects 0
SizeAccepted_positive(n) == n >= 1

\* rng.choice and rng.integers reject a negative size with ValueError; the
\* code has no check of its own, and size 0 yields empty columns
SizeAccepted(n) == n >= 0

\* impressions / uniques cut to 2 decimals instead of rounded
freq_truncated(impressions, uniques) ==
    RoundHalfEven_floor(FreqDecimalsScale * impressions, uniques)

\* (impressions / uniques).round(2), in hundredths
freq(impressions, uniques) ==
    RoundHalfEven(FreqDecimalsScale * impressions, uniques)

ErrorResult == [status |-> "ValueError", columns |-> <<>>, rows |-> <<>>]

\* make_demo_df(n, seed), lines 96-106.  The four random columns are drawn
\* one after the other from the same generator, n draws each.
make_demo_df(n, seed) ==
    IF ~SizeAccepted(n) THEN ErrorResult
    ELSE
    LET rng0 == default_rng(seed)
        dates == date_range(n)
        region == choice(rng0, Regions, n)
        rng1 == RngAfter(rng0, n)
        impressions == integers(rng1, ImpressionsLow, ImpressionsHigh, n)
        rng2 == RngAfter(rng1, n)
        uniques == integers(rng2, UniquesLow, UniquesHigh, n)
        rng3 == RngAfter(rng2, n)
        format == choice(rng3, Formats, n)
    IN  [status |-> "ok",
         columns |-> DemoColumns,
         rows |-> [i \in 1..n |->
                    [date |-> dates[i],
                     region |-> region[i],
                     impressions |-> impressions[i],
                     uniques |-> uniques[i],
                     format |-> format[i],
                     freq |-> freq(impressions[i], uniques[i])]]]

\* -------------------------------------------------------- pandas operations
\* sum of column col over rows lo..hi (by halves, to keep the evaluation shallow)
RECURSIVE SumRange(_, _, _, _)
SumRange(rows, col, lo, hi) ==
    IF lo > hi THEN 0
    ELSE IF lo = hi THEN rows[lo][col]
    ELSE LET mid == (lo + hi) \div 2
         IN  SumRange(rows, col, lo, mid) + SumRange(rows, col, mid + 1, hi)

SumCol(rows, col) == SumRange(rows, col, 1, Len(rows))

\* largest value of column col over rows lo..hi, 0 when there is none
RECURSIVE MaxRange(_, _, _, _)
MaxRange(rows, col, lo, hi) ==
    IF lo > hi THEN 0
    ELSE IF lo = hi THEN rows[lo][col]
    ELSE LET mid == (lo + hi) \div 2
             a == MaxRange(rows, col, lo, mid)
             b == MaxRange(rows, col, mid + 1, hi)
         IN  IF a > b THEN a ELSE b

MaxCol(rows, col) == MaxRange(rows, col, 1, Len(rows))

\* the members of S within lo..hi in ascending order
RECURSIVE AscendingIn(_, _, _)
AscendingIn(S, lo, hi) ==
    IF lo > hi THEN <<>>
    ELSE IF lo = hi THEN (IF lo \in S THEN <<lo>> ELSE <<>>)
    ELSE LET mid == (lo + hi) \div 2
         IN  AscendingIn(S, lo, mid) \o AscendingIn(S, mid + 1, hi)

\* the integers of S in ascending order (groupby sorts its keys)
Ascending(S) ==
    IF S = {} THEN <<>>
    ELSE AscendingIn(S, CHOOSE x \in S : \A y \in S : x <= y,
                        CHOOSE x \in S : \A y \in S : x >= y)

ColumnValues(rows, col) == {rows[i][col] : i \in 1..Len(rows)}

\* df.groupby("date")["impressions"].sum().reset_index(), line 134
daily_view(t) ==
    LET keys == Ascending(ColumnValues(t.rows, "date"))
    IN  [columns |-> <<"date", "impressions">>,
         rows |-> [k \in 1..Len(keys) |->
                    [date |-> keys[k],
                     impressions |->
                        SumCol(SelectSeq(t.rows, LAMBDA r : r.date = keys[k]),
                               "impressions")]]]

\* the category labels in the order groupby sorts them (string order)
SortedRegions == <<"Lisboa", "Matosinhos", "Porto", "Setúbal">>
SortedFormats == <<"Abrigo", "Digital", "Mupi">>

\* every (region, format) pair in groupby's key order
AllPairs ==
    [k \in 1..(Len(SortedRegions) * Len(SortedFormats)) |->
        <<SortedRegions[((k - 1) \div Len(SortedFormats)) + 1],
          SortedFormats[((k - 1) % Len(SortedFormats)) + 1]>>]

GroupOf(rows, pair) ==
    SelectSeq(rows, LAMBDA r : r.region = pair[1] /\ r.format = pair[2])

\* the aggregate .max() in place of .sum()
group_sum_as_max(rows, col) == MaxCol(rows, col)

\* the aggregate .sum() applies to one column of one group, line 162
group_sum(rows, col) == SumCol(rows, col)

\* df.groupby(["region", "format"], as_index=False)[["impressions",
\* "uniques"]].sum(), lines 160-163: one row per pair that has rows
region_format_agg(t) ==
    LET present == SelectSeq(AllPairs, LAMBDA p : GroupOf(t.rows, p) # <<>>)
    IN  [columns |-> <<"region", "format", "impressions", "uniques">>,
         rows |-> [k \in 1..Len(present) |->
                    [region |-> present[k][1],
                     format |-> present[k][2],
                     impressions |-> group_sum(GroupOf(t.rows, present[k]), "impressions"),
                     uniques |-> group_sum(GroupOf(t.rows, present[k]), "uniques")]]]

\* a row with one more column
WithColumn(r, col, v) ==
    [c \in (DOMAIN r) \cup {col} |-> IF c = col THEN v ELSE r[c]]

\* d.index // 24 in place of d.index % 24
hour_of_index_div(i) == i \div HoursPerDay

\* the value of the new column "hour" for index label i, line 178
hour_of_index(i) == i % HoursPerDay

\* df.assign(hour=lambda d: (d.index % 24)): a new frame, df untouched
assign_hour(t) ==
    [columns |-> t.columns \o <<"hour">>,
     rows |-> [i \in 1..Len(t.rows) |->
                WithColumn(t.rows[i], "hour", hour_of_index(i - 1))]]

\* .groupby("hour")["uniques"].mean().reset_index(), line 178; the mean is
\* kept as the exact fraction num/den
hourly_view(t) ==
    LET a == assign_hour(t)
        keys == Ascending(ColumnValues(a.rows, "hour"))
    IN  [columns |-> <<"hour", "uniques">>,
         rows |-> [k \in 1..Len(keys) |->
                    LET g == SelectSeq(a.rows, LAMBDA r : r.hour = keys[k])
                    IN  [hour |-> keys[k],
                         uniques |-> [num |-> SumCol(g, "uniques"), den |-> Len(g)]]]]

\* ISO week number of the date d days after 2024-01-01 (a Monday, and the
\* first day of ISO week 1).  ISO years 2024 and 2025 both have 52 weeks, so
\* this holds for d < 728; the dataset of the page spans d < 200.
DaysPerWeek == 7
DaysPerIsoYear == 364
IsoWeek(d) == ((d % DaysPerIsoYear) \div DaysPerWeek) + 1

\* wk["week"] = wk["date"].dt.isocalendar().week, line 192 (in place)
set_week(t) ==
    [columns |-> t.columns \o <<"week">>,
     rows |-> [i \in 1..Len(t.rows) |->
                WithColumn(t.rows[i], "week", IsoWeek(t.rows[i].date))]]

\* wk.groupby("week")["impressions"].sum().reset_index(), line 193
weekly_view(t) ==
    LET keys == Ascending(ColumnValues(t.rows, "week"))
    IN  [columns |-> <<"week", "impressions">>,
         rows |-> [k \in 1..Len(keys) |->
                    [week |-> keys[k],
                     impressions |->
                        SumCol(SelectSeq(t.rows, LAMBDA r : r.week = keys[k]),
                               "impressions")]]]

\* an expanding window: every row so far
window_start_expanding(k) == 1

\* first row of the window of rolling(4, min_periods=1) that ends at row k
window_start(k) == IF k > RollingWindow THEN k - RollingWindow + 1 ELSE 1

\* the mean over the window ending at row k, after .round()
rolling_mean_round(rows, k) ==
    LET first == window_start(k)
        total == SumRange(rows, "impressions", first, k)
    IN  RoundHalfEven(total, k - first + 1)

\* wk["forecast"] = wk["impressions"].rolling(4, min_periods=1).mean().round(),
\* line 194 (in place)
set_forecast(t) ==
    [columns |-> t.columns \o <<"forecast">>,
     rows |-> [k \in 1..Len(t.rows) |->
                WithColumn(t.rows[k], "forecast", rolling_mean_round(t.rows, k))]]

\* ------------------------------------------------------------------ objects
\* a new object holding table t; the reference to it is Len(h) + 1
Alloc(h, t) == Append(h, t)

\* wk = df without .copy(): the same object under a second name
copy_alias(h, ref) == [heap |-> h, ref |-> ref]

\* df.copy(), line 191: the reference of the copy and the heap holding it
copy(h, ref) == [heap |-> Alloc(h, h[ref]), ref |-> Len(h) + 1]

\* the table of a result of make_demo_df
Frame(res) == [columns |-> res.columns, rows |-> res.rows]

\* ------------------------------------------------------------------- cache
\* @st.cache_data on load_data, line 108: load_data takes no argument, so the
\* cache has one key; a stored entry is a pickled copy that no caller holds.
\* Without the decorator every call is a miss:
CacheHit_never(c) == FALSE

\* with it, a call is a hit once the key has an entry
CacheHit(c) == CacheKey \in DOMAIN c

\* load_data(), lines 108-110: binds df to the returned table, then goes to
\* `next`.  A miss runs the generator and stores the result; a hit returns a
\* fresh copy of the stored entry.
load_data(next) ==
    /\ IF CacheHit(cache)
       THEN /\ heap' = Alloc(heap, cache[CacheKey])
            /\ UNCHANGED <<cache, genRuns>>
       ELSE LET value == Frame(make_demo_df(DefaultN, DefaultSeed))
            IN  /\ cache' = [k \in (DOMAIN cache) \cup {CacheKey} |->
                                IF k = CacheKey THEN value ELSE cache[k]]
                /\ genRuns' = genRuns + 1
                /\ heap' = Alloc(heap, value)
    /\ df' = Len(heap) + 1
    /\ pc' = next

\* ------------------------------------------------------------- script run
Pages == {"Home", "Projects", "Resume", "Contact"}

Init ==
    /\ page = "Home"
    /\ pc = "router"
    /\ cache = NoEntries
    /\ genRuns = 0
    /\ renders = 1
    /\ heap = <<>>
    /\ df = NullRef /\ wk = NullRef
    /\ daily = NoFrame /\ agg = NoFrame /\ hourly = NoFrame
    /\ gn = 0 /\ gseed = 0 /\ gpc = "off" /\ gcalls = <<>>

\* the router switch, lines 309-316
Router ==
    /\ pc = "router"
    /\ pc' = CASE page = "Home" -> "home_load"
               [] page = "Projects" -> "p1_load"
               [] page = "Resume" -> "resume"
               [] OTHER -> "contact"
    /\ UNCHANGED <<page, cache, genRuns, renders, heap, df, wk, daily, agg, hourly>>
    /\ UNCHANGED genVars

\* render_home, line 132
HomeLoad ==
    /\ pc = "home_load"
    /\ load_data("home_daily")
    /\ UNCHANGED <<page, renders, wk, daily, agg, hourly>>
    /\ UNCHANGED genVars

\* render_home, line 134
HomeDaily ==
    /\ pc = "home_daily"
    /\ daily' = daily_view(heap[df])
    /\ pc' = "footer"
    /\ UNCHANGED <<page, cache, genRuns, renders, heap, df, wk, agg, hourly>>
    /\ UNCHANGED genVars

\* render_projects, line 159
P1Load ==
    /\ pc = "p1_load"
    /\ load_data("p1_agg")
    /\ UNCHANGED <<page, renders, wk, daily, agg, hourly>>
    /\ UNCHANGED genVars

\* render_projects, lines 160-163
P1Agg ==
    /\ pc = "p1_agg"
    /\ agg' = region_format_agg(heap[df])
    /\ pc' = "p2_load"
    /\ UNCHANGED <<page, cache, genRuns, renders, heap, df, wk, daily, hourly>>
    /\ UNCHANGED genVars

\* render_projects, line 177
P2Load ==
    /\ pc = "p2_load"
    /\ load_data("p2_hourly")
    /\ UNCHANGED <<page, renders, wk, daily, agg, hourly>>
    /\ UNCHANGED genVars

\* render_projects, line 178
P2Hourly ==
    /\ pc = "p2_hourly"
    /\ hourly' = hourly_view(heap[df])
    /\ pc' = "p3_load"
    /\ UNCHANGED <<page, cache, genRuns, renders, heap, df, wk, daily, agg>>
    /\ UNCHANGED genVars

\* render_projects, line 190
P3Load ==
    /\ pc = "p3_load"
    /\ load_data("p3_copy")
    /\ UNCHANGED <<page, renders, wk, daily, agg, hourly>>
    /\ UNCHANGED genVars

\* render_projects, line 191
P3Copy ==
    /\ pc = "p3_copy"
    /\ heap' = copy(heap, df).heap
    /\ wk' = copy(heap, df).ref
    /\ pc' = "p3_week"
    /\ UNCHANGED <<page, cache, genRuns, renders, df, daily, agg, hourly>>
    /\ UNCHANGED genVars

\* render_projects, line 192: the object wk names gets the column "week"
P3Week ==
    /\ pc = "p3_week"
    /\ heap' = [heap EXCEPT ![wk] = set_week(heap[wk])]
    /\ pc' = "p3_group"
    /\ UNCHANGED <<page, cache, genRuns, renders, df, wk, daily, agg, hourly>>
    /\ UNCHANGED genVars

\* render_projects, line 193: wk is rebound to the grouped table
P3Group ==
    /\ pc = "p3_group"
    /\ heap' = Alloc(heap, weekly_view(heap[wk]))
    /\ wk' = Len(heap) + 1
    /\ pc' = "p3_forecast"
    /\ UNCHANGED <<page, cache, genRuns, renders, df, daily, agg, hourly>>
    /\ UNCHANGED genVars

\* render_projects, line 194: the object wk names gets the column "forecast"
P3Forecast ==
    /\ pc = "p3_forecast"
    /\ heap' = [heap EXCEPT ![wk] = set_forecast(heap[wk])]
    /\ pc' = "p3_chart"
    /\ UNCHANGED <<page, cache, genRuns, renders, df, wk, daily, agg, hourly>>
    /\ UNCHANGED genVars

\* render_projects, lines 195-197: the chart is drawn and the function returns
P3Chart ==
    /\ pc = "p3_chart"
    /\ pc' = "footer"
    /\ UNCHANGED <<page, cache, genRuns, renders, heap, df, wk, daily, agg, hourly>>
    /\ UNCHANGED genVars

\* render_resume, lines 200-262, and render_contact, lines 265-305: no data
RenderResume ==
    /\ pc = "resume"
    /\ pc' = "footer"
    /\ UNCHANGED <<page, cache, genRuns, renders, heap, df, wk, daily, agg, hourly>>
    /\ UNCHANGED genVars

RenderContact ==
    /\ pc = "contact"
    /\ pc' = "footer"
    /\ UNCHANGED <<page, cache, genRuns, renders, heap, df, wk, daily, agg, hourly>>
    /\ UNCHANGED genVars

\* the footer, lines 319-322: the run ends and the render's locals are gone
Footer ==
    /\ pc = "footer"
    /\ pc' = "idle"
    /\ heap' = <<>>
    /\ df' = NullRef /\ wk' = NullRef
    /\ daily' = NoFrame /\ agg' = NoFrame /\ hourly' = NoFrame
    /\ UNCHANGED <<page, cache, genRuns, renders>>
    /\ UNCHANGED genVars

\* a widget interaction: the radio of line 93 holds p and the script reruns
Interact(p) ==
    /\ pc = "idle"
    /\ renders < MaxRenders
    /\ page' = p
    /\ renders' = renders + 1
    /\ pc' = "router"
    /\ UNCHANGED <<cache, genRuns, heap, df, wk, daily, agg, hourly>>
    /\ UNCHANGED genVars

Next ==
    \/ Router
    \/ HomeLoad
    \/ HomeDaily
    \/ P1Load
    \/ P1Agg
    \/ P2Load
    \/ P2Hourly
    \/ P3Load
    \/ P3Copy
    \/ P3Week
    \/ P3Group
    \/ P3Forecast
    \/ P3Chart
    \/ RenderResume
    \/ RenderContact
    \/ Footer
    \/ \E p \in Pages : Interact(p)

Spec == Init /\ [][Next]_vars

\* ------------------------------------------------------------ direct calls
\* A caller of the generator alone: it fixes (n, seed) and calls
\* make_demo_df(n, seed) repeatedly, keeping every result.
AppIdle ==
    /\ page = "Home" /\ pc = "idle" /\ cache = NoEntries /\ genRuns = 0
    /\ renders = 0 /\ heap = <<>> /\ df = NullRef /\ wk = NullRef
    /\ daily = NoFrame /\ agg = NoFrame /\ hourly = NoFrame

InitGen ==
    /\ AppIdle
    /\ gn \in -1..MaxN
    /\ gseed \in 0..MaxSeed
    /\ gpc = "call"
    /\ gcalls = <<>>

CallMakeDemoDf ==
    /\ gpc = "call"
    /\ Len(gcalls) < MaxCalls
    /\ gcalls' = Append(gcalls, make_demo_df(gn, gseed))
    /\ gpc' = IF make_demo_df(gn, gseed).status = "ok" THEN "call" ELSE "raised"
    /\ UNCHANGED <<gn, gseed>>
    /\ UNCHANGED appVars

NextGen == CallMakeDemoDf

SpecGen == InitGen /\ [][NextGen]_vars

\* ------------------------------------------------- properties: the generator
\* the results of the direct calls that returned a table
Returned == {i \in DOMAIN gcalls : gcalls[i].status = "ok"}

C3_Ranges ==
    \A c \in Returned :
        \A i \in 1..Len(gcalls[c].rows) :
            LET r == gcalls[c].rows[i]
            IN  /\ 1000 <= r.impressions /\ r.impressions < 50000
                /\ 500 <= r.uniques /\ r.uniques < 20000
                /\ r.region \in {"Lisboa", "Porto", "Matosinhos", "Setúbal"}
                /\ r.format \in {"Mupi", "Abrigo", "Digital"}

C3_Witness ==
    /\ gn = MaxN
    /\ Len(gcalls) >= 1
    /\ Len(gcalls[1].rows) = MaxN
    /\ gcalls[1].rows[MaxN].impressions >= 1000

C10_Freq ==
    \A c \in Returned :
        \A i \in 1..Len(gcalls[c].rows) :
            LET r == gcalls[c].rows[i]
            IN  /\ r.uniques >= 500
                /\ 2 * Abs(100 * r.impressions - r.freq * r.uniques) <= r.uniques

C10_Witness ==
    /\ Len(gcalls) >= 1
    /\ gn >= 1
    /\ gcalls[1].status = "ok"
    /\ gcalls[1].rows[1].freq * gcalls[1].rows[1].uniques
         # 100 * gcalls[1].rows[1].impressions

\* ----------------------------------------------------- properties: the page
\* the dataset load_data holds, once a call has stored it
Stored == cache[CacheKey]

\* C5: across the script runs of one process make_demo_df runs at most once:
\* only a call that finds no entry runs it, that call stores the entry, a
\* stored entry is never removed or replaced, and every load_data call hands
\* back the stored table.
C5_GeneratorRunsOnce ==
    [][ /\ genRuns' <= 1
        /\ genRuns' # genRuns =>
              /\ CacheKey \notin DOMAIN cache
              /\ genRuns' = genRuns + 1
              /\ CacheKey \in DOMAIN cache'
        /\ CacheKey \in DOMAIN cache => cache' = cache
        /\ cache' # cache => genRuns' # genRuns
        /\ (df' # df /\ df' # NullRef) => heap'[df'] = cache'[CacheKey]
      ]_vars

C5_Witness ==
    /\ renders >= 2
    /\ genRuns = 1
    /\ pc = "p3_copy"
    /\ page = "Projects"
    /\ heap[df] = Stored

\* C6: the region x format aggregation has exactly one row per (region,
\* format) pair that occurs in the dataset, each row holds the sums of its
\* pair's rows, and its impressions (and uniques) add up to the dataset's.
PairsPresent == {<<Stored.rows[i].region, Stored.rows[i].format>> : i \in 1..Len(Stored.rows)}

C6_AggregationConsistent ==
    agg # NoFrame =>
        /\ {<<agg.rows[k].region, agg.rows[k].format>> : k \in 1..Len(agg.rows)} = PairsPresent
        /\ Len(agg.rows) = Cardinality(PairsPresent)
        /\ \A k \in 1..Len(agg.rows) :
              LET g == SelectSeq(Stored.rows,
                                 LAMBDA r : /\ r.region = agg.rows[k].region
                                            /\ r.format = agg.rows[k].format)
              IN  /\ agg.rows[k].impressions = SumCol(g, "impressions")
                  /\ agg.rows[k].uniques = SumCol(g, "uniques")
        /\ SumCol(agg.rows, "impressions") = SumCol(Stored.rows, "impressions")
        /\ SumCol(agg.rows, "uniques") = SumCol(Stored.rows, "uniques")

C6_Witness ==
    /\ pc = "p2_load"
    /\ Len(agg.rows) >= 2
    /\ agg.rows[1].impressions >= 50000
    /\ SumCol(agg.rows, "impressions") = SumCol(Stored.rows, "impressions")

\* the weekly table once line 194 has run
Weekly == heap[wk].rows
ForecastDone == pc = "p3_chart"

\* sum of the impressions of the w weeks ending at week k
Trailing(k, w) == SumRange(Weekly, "impressions", k - w + 1, k)

\* C7 as stated: the first week's forecast is that week's sum, and from the
\* 4th week on the forecast equals the mean of the trailing 4 weekly sums.
C7_ForecastIsMean ==
    ForecastDone =>
        /\ Weekly[1].forecast = Weekly[1].impressions
        /\ \A k \in 4..Len(Weekly) : 4 * Weekly[k].forecast = Trailing(k, 4)

\* f is the integer nearest to total / w, a tie going to the even integer
NearestInteger(f, total, w) ==
    /\ 2 * Abs(w * f - total) <= w
    /\ 2 * Abs(w * f - total) = w => f % 2 = 0

\* C7 as amended: the weekly rows are the ISO weeks of the dataset in
\* ascending order with their impressions sums; the first week's forecast is
\* that week's sum; the 2nd and 3rd weeks' forecasts are the mean of the weeks
\* so far and, from the 4th week on, of the trailing 4 weeks, in each case
\* rounded to the nearest integer.
C7_ForecastIsRoundedMean ==
    ForecastDone =>
        /\ \A k \in 1..Len(Weekly) :
              /\ Weekly[k].impressions =
                    SumCol(SelectSeq(heap[df].rows,
                                     LAMBDA r : IsoWeek(r.date) = Weekly[k].week),
                           "impressions")
              /\ k > 1 => Weekly[k - 1].week < Weekly[k].week
        /\ {Weekly[k].week : k \in 1..Len(Weekly)}
              = {IsoWeek(heap[df].rows[i].date) : i \in 1..Len(heap[df].rows)}
        /\ Weekly[1].forecast = Weekly[1].impressions
        /\ \A k \in 2..3 :
              k <= Len(Weekly) => NearestInteger(Weekly[k].forecast, Trailing(k, k), k)
        /\ \A k \in 4..Len(Weekly) :
              NearestInteger(Weekly[k].forecast, Trailing(k, 4), 4)

C7_Witness ==
    /\ ForecastDone
    /\ Len(Weekly) >= 5
    /\ \E k \in 5..Len(Weekly) :
          /\ 4 * Weekly[k].forecast # Trailing(k, 4)
          /\ NearestInteger(Weekly[k].forecast, Trailing(k, 4), 4)

\* sum of column col over the rows at positions first, first + step, ...
RECURSIVE SumStride(_, _, _, _)
SumStride(rows, col, first, step) ==
    IF first > Len(rows) THEN 0
    ELSE rows[first][col] + SumStride(rows, col, first + step, step)

\* the positions of the rows whose index label is h modulo 24
RowsOfHour(h) == {i \in 1..Len(Stored.rows) : (i - 1) % 24 = h}

\* C8: the hourly table has exactly the 24 buckets 0..23, in that order, each
\* holding the mean of uniques over the rows whose index is that hour modulo
\* 24; a bucket is in the table exactly when some row falls in it.
C8_HourlyBuckets ==
    hourly # NoFrame =>
        /\ Len(hourly.rows) = 24
        /\ \A k \in 1..Len(hourly.rows) :
              /\ hourly.rows[k].hour = k - 1
              /\ hourly.rows[k].uniques.den = Cardinality(RowsOfHour(k - 1))
              /\ hourly.rows[k].uniques.den > 0
              /\ hourly.rows[k].uniques.num = SumStride(Stored.rows, "uniques", k, 24)
        /\ \A h \in 0..23 :
              (\E k \in 1..Len(hourly.rows) : hourly.rows[k].hour = h)
                 <=> RowsOfHour(h) # {}

C8_Witness ==
    /\ pc = "p3_load"
    /\ Len(hourly.rows) = 24
    /\ hourly.rows[1].uniques.den = 9
    /\ hourly.rows[24].uniques.den = 8

\* C9: the stored dataset keeps the six columns and the rows it was generated
\* with, and the table a render holds in df stays equal to it while the views
\* are built: wk is another object than df, and no view adds a column to df.
C9_DatasetReadOnly ==
    /\ CacheKey \in DOMAIN cache =>
          /\ Stored.columns = <<"date", "region", "impressions", "uniques", "format", "freq">>
          /\ Len(Stored.rows) = DefaultN
          /\ Stored = Frame(make_demo_df(DefaultN, DefaultSeed))
    /\ df # NullRef =>
          /\ heap[df] = Stored
          /\ wk # df

C9_Witness ==
    /\ pc = "p3_chart"
    /\ renders >= 2
    /\ heap[wk].columns = <<"week", "impressions", "forecast">>
    /\ heap[df] = Stored
    /\ hourly.columns = <<"hour", "uniques">>

====
